---------------------------- MODULE Spec2Model ----------------------------
(***************************************************************************)
(* A model of server.mjs of HowFarFromPotty: the /api/nearest handler, the *)
(* region test, the UK dataset cache (getDataset) and the paginated US     *)
(* proximity client (getUsNearest).                                        *)
(*                                                                         *)
(* Conventions.                                                            *)
(*  - A JavaScript value is a record [t, n, s]: t is its type tag, n its   *)
(*    numeric content, s its string content.  Numbers are kept in TENTHS   *)
(*    (51.5 is 515), which is exact for every number the model uses.       *)
(*  - Time is Date.now() in milliseconds.                                  *)
(*  - Distances are in tenths of a kilometre.                              *)
(*  - Every await of the code is a suspension point: the code up to the    *)
(*    next await is one action.                                            *)
(***************************************************************************)
EXTENDS Integers, Sequences, FiniteSets, TLC

(***************************************************************************)
(* Bounds of the model.                                                    *)
(***************************************************************************)
\* Number of handler invocations that may be in flight at the same time.
MaxRequests == 2
\* Number of times the clock advances (by TickMs) in a behaviour.
MaxTicks == 2

(***************************************************************************)
(* JavaScript values.                                                      *)
(***************************************************************************)
JsNull == [t |-> "null", n |-> 0, s |-> ""]
JsUndefined == [t |-> "undefined", n |-> 0, s |-> ""]
JsNaN == [t |-> "NaN", n |-> 0, s |-> ""]
JsInfinity == [t |-> "Infinity", n |-> 1, s |-> ""]
JsNegInfinity == [t |-> "Infinity", n |-> -1, s |-> ""]
\* The number x/10.
JsNum(x) == [t |-> "number", n |-> x, s |-> ""]
JsStr(str) == [t |-> "string", n |-> 0, s |-> str]
JsTrue == [t |-> "boolean", n |-> 1, s |-> ""]
JsFalse == [t |-> "boolean", n |-> 0, s |-> ""]

IsNumeric(v) == v.t \in {"number", "NaN", "Infinity"}

\* The decimal numerals the model's inputs use, with the number each denotes
\* (in tenths).
Numerals ==
  [str \in {"0", "1", "2", "2.7", "3", "5", "20", "25", "-3.5",
            "51.5", "49.8", "60.9", "61", "40.7", "18.5", "18.4",
            "-0.1", "-8.7", "1.8", "1.9", "-74", "-66", "-65.9", "-179.2"} |->
     CASE str = "0" -> 0 [] str = "1" -> 10 [] str = "2" -> 20
       [] str = "2.7" -> 27 [] str = "3" -> 30 [] str = "5" -> 50
       [] str = "20" -> 200 [] str = "25" -> 250 [] str = "-3.5" -> -35
       [] str = "51.5" -> 515 [] str = "49.8" -> 498 [] str = "60.9" -> 609
       [] str = "61" -> 610 [] str = "40.7" -> 407 [] str = "18.5" -> 185
       [] str = "18.4" -> 184 [] str = "-0.1" -> -1 [] str = "-8.7" -> -87
       [] str = "1.8" -> 18 [] str = "1.9" -> 19 [] str = "-74" -> -740
       [] str = "-66" -> -660 [] str = "-65.9" -> -659
       [] str = "-179.2" -> -1792]

\* Strings that are only white space: StringToNumber gives 0 for them.
BlankStrings == {"", " "}

\* Number(v): undefined is NaN, null is 0, a blank string is 0, a numeral is
\* its number, any other string is NaN.
ToNumber(v) ==
  CASE v.t = "undefined" -> JsNaN
    [] v.t = "null" -> JsNum(0)
    [] v.t = "boolean" -> JsNum(10 * v.n)
    [] v.t = "string" ->
         IF v.s \in BlankStrings THEN JsNum(0)
         ELSE IF v.s \in DOMAIN Numerals THEN JsNum(Numerals[v.s])
         ELSE IF v.s = "Infinity" THEN JsInfinity
         ELSE IF v.s = "-Infinity" THEN JsNegInfinity
         ELSE JsNaN
    [] OTHER -> v

\* Whether v is falsy: the left operand of || is replaced when it is.
Falsy(v) ==
  \/ v.t \in {"null", "undefined", "NaN"}
  \/ v.t = "number" /\ v.n = 0
  \/ v.t = "string" /\ v.s = ""
  \/ v.t = "boolean" /\ v.n = 0

\* a || b
JsOr(a, b) == IF Falsy(a) THEN b ELSE a

\* Number.isFinite(value)
isFiniteNumber(value) == value.t = "number"

(***************************************************************************)
(* Program constants.                                                      *)
(***************************************************************************)
CACHE_TTL_MS == 6 * 60 * 60 * 1000
DATASET_PAGE_URL == "https://www.toiletmap.org.uk/dataset"
US_API_BASE_URL == "https://www.refugerestrooms.org/api/v1"

\* In tenths of a degree.
UK_BOUNDS == [minLat |-> 498, maxLat |-> 609, minLon |-> -87, maxLon |-> 18]
US_BOUNDS == [minLat |-> 185, maxLat |-> 716, minLon |-> -1792, maxLon |-> -660]

\* A faulty variant of isInUkBounds, with the bounds left out of the box.
isInUkBounds_Exclusive(lat, lon) ==
  /\ lat > UK_BOUNDS.minLat
  /\ lat < UK_BOUNDS.maxLat
  /\ lon > UK_BOUNDS.minLon
  /\ lon < UK_BOUNDS.maxLon

\* lat and lon are finite numbers in tenths of a degree.
isInUkBounds(lat, lon) ==
  /\ lat >= UK_BOUNDS.minLat
  /\ lat <= UK_BOUNDS.maxLat
  /\ lon >= UK_BOUNDS.minLon
  /\ lon <= UK_BOUNDS.maxLon

isInUsBounds(lat, lon) ==
  /\ lat >= US_BOUNDS.minLat
  /\ lat <= US_BOUNDS.maxLat
  /\ lon >= US_BOUNDS.minLon
  /\ lon <= US_BOUNDS.maxLon

(***************************************************************************)
(* The limit query parameter (handler, lines 583-586).                     *)
(***************************************************************************)
Min(a, b) == IF a <= b THEN a ELSE b
Max(a, b) == IF a >= b THEN a ELSE b

\* Math.floor of a number in tenths, as a whole number.
Floor(x) == x \div 10

\* Number(url.searchParams.get("limit") || 5)
RequestedLimit(param) == ToNumber(JsOr(param, JsNum(50)))

\* A faulty variant of ClampLimit, without Math.max(..., 1).
ClampLimit_NoLowerBound(requestedLimit) ==
  IF isFiniteNumber(requestedLimit)
  THEN Min(Floor(requestedLimit.n), 20)
  ELSE 5

\* Number.isFinite(requestedLimit)
\*   ? Math.min(Math.max(Math.floor(requestedLimit), 1), 20) : 5
ClampLimit(requestedLimit) ==
  IF isFiniteNumber(requestedLimit)
  THEN Min(Max(Floor(requestedLimit.n), 1), 20)
  ELSE 5


(***************************************************************************)
(* clampText (lines 70-81).  A text is a TLA+ string; white space is the   *)
(* space character.                                                        *)
(***************************************************************************)
\* String(value), for the values the rows of the model hold.
JsString(v) ==
  CASE v.t = "string" -> v.s
    [] v.t = "null" -> "null"
    [] v.t = "undefined" -> "undefined"
    [] v.t = "boolean" -> IF v.n = 1 THEN "true" ELSE "false"

RECURSIVE CollapseFrom(_, _, _)
\* text.replace(/\s+/g, " "), from position i on; prevWs says whether the
\* character before position i was white space.
CollapseFrom(text, i, prevWs) ==
  IF i > Len(text) THEN ""
  ELSE LET ch == SubSeq(text, i, i) IN
       IF ch = " "
       THEN (IF prevWs THEN "" ELSE " ") \o CollapseFrom(text, i + 1, TRUE)
       ELSE ch \o CollapseFrom(text, i + 1, FALSE)

\* .trim() of a text whose white-space runs are already single spaces.
Trim(text) ==
  LET from == IF Len(text) > 0 /\ SubSeq(text, 1, 1) = " " THEN 2 ELSE 1
      to == IF Len(text) > 0 /\ SubSeq(text, Len(text), Len(text)) = " "
            THEN Len(text) - 1 ELSE Len(text)
  IN  IF from > to THEN "" ELSE SubSeq(text, from, to)

clampText(value, maxLen) ==
  IF Falsy(value) THEN JsNull
  ELSE LET text == Trim(CollapseFrom(JsString(value), 1, FALSE)) IN
       IF text = "" THEN JsNull
       ELSE IF Len(text) > maxLen
            THEN JsStr(SubSeq(text, 1, maxLen - 3) \o "...")
            ELSE JsStr(text)

(***************************************************************************)
(* haversineKm (lines 83-96) in fixed point.  Angles are in 1e-4 radians,  *)
(* sines and cosines are scaled by 1e4, and the result is in tenths of a   *)
(* kilometre.  The trigonometric functions are truncated power series, so  *)
(* a distance is within about 3% of the floating-point one; the model's    *)
(* points lie within one region, far from antipodal.                       *)
(***************************************************************************)
earthRadiusKm == 6371

\* a / b rounded towards zero, so that the functions below stay odd or even
\* as the real ones are.
Quot(a, b) == IF a >= 0 THEN a \div b ELSE -((-a) \div b)

\* toRad of an angle in tenths of a degree: degrees * Math.PI / 180.
toRad(tenths) == Quot(tenths * 17453, 1000)

\* x * y / 1e4
Mul(x, y) == Quot(x * y, 10000)

\* Math.sin(x)
Sin(x) ==
  LET x2 == Mul(x, x)
      x3 == Mul(x2, x)
      x5 == Mul(x3, x2)
  IN  x - Quot(x3, 6) + Quot(x5, 120)

\* Math.cos(x)
Cos(x) ==
  LET x2 == Mul(x, x)
      x4 == Mul(x2, x2)
      x6 == Mul(x4, x2)
  IN  10000 - Quot(x2, 2) + Quot(x4, 24) - Quot(x6, 720)

RECURSIVE SqrtBetween(_, _, _)
\* The largest r in lo..hi with r * r <= n.
SqrtBetween(n, lo, hi) ==
  IF lo >= hi THEN lo
  ELSE LET mid == (lo + hi + 1) \div 2 IN
       IF mid * mid <= n THEN SqrtBetween(n, mid, hi)
       ELSE SqrtBetween(n, lo, mid - 1)

\* Math.sqrt of a number scaled by 1e8, scaled by 1e4.
Sqrt(n) == SqrtBetween(n, 0, 10000)

\* Math.atan2(Math.sqrt(a), Math.sqrt(1 - a)) is the arcsine of Math.sqrt(a).
ArcSin(s) ==
  LET s2 == Mul(s, s)
      s3 == Mul(s2, s)
      s5 == Mul(s3, s2)
      s7 == Mul(s5, s2)
  IN  s + Quot(s3, 6) + Quot(3 * s5, 40) + Quot(15 * s7, 336)

haversineKm(lat1, lon1, lat2, lon2) ==
  LET dLat == toRad(lat2 - lat1)
      dLon == toRad(lon2 - lon1)
      sinLat == Sin(Quot(dLat, 2))
      sinLon == Sin(Quot(dLon, 2))
      a == sinLat * sinLat +
           Mul(Cos(toRad(lat1)), Cos(toRad(lat2))) * Mul(sinLon, sinLon)
      c == 2 * ArcSin(Sqrt(a))
  IN  Quot(earthRadiusKm * c, 1000)


(***************************************************************************)
(* Rows of the UK export and parseToilets (lines 324-356).                 *)
(* A row is a record of JavaScript values; t is "null" for a null element  *)
(* of the array.  location.coordinates is [isArray, items].                *)
(***************************************************************************)
UkRow(id, active, coordinates) ==
  [t |-> "object", id |-> JsStr(id), name |-> JsStr("WC " \o id),
   active |-> active, coordinates |-> coordinates,
   area |-> JsStr("Camden"), accessible |-> JsTrue, baby_change |-> JsFalse,
   no_payment |-> JsNull, radar |-> JsNull, all_gender |-> JsTrue,
   notes |-> JsStr("by  the gate"), opening_times |-> JsNull,
   updated_at |-> JsStr("2024-01-01")]

UkNullRow ==
  [t |-> "null", id |-> JsUndefined, name |-> JsUndefined,
   active |-> JsUndefined, coordinates |-> [isArray |-> FALSE, items |-> <<>>],
   area |-> JsUndefined, accessible |-> JsUndefined,
   baby_change |-> JsUndefined, no_payment |-> JsUndefined,
   radar |-> JsUndefined, all_gender |-> JsUndefined, notes |-> JsUndefined,
   opening_times |-> JsUndefined, updated_at |-> JsUndefined]

\* [lon, lat], both numbers in tenths of a degree.
LonLat(lon, lat) == [isArray |-> TRUE, items |-> <<JsNum(lon), JsNum(lat)>>]

\* The value the map callback of parseToilets returns: hasRecord is FALSE for
\* null.
ParseRow(row) ==
  LET coords == row.coordinates
      lon == ToNumber(coords.items[1])
      lat == ToNumber(coords.items[2])
      none == [hasRecord |-> FALSE, record |-> <<>>]
  IN  IF ~coords.isArray \/ Len(coords.items) < 2 THEN none
      ELSE IF ~isFiniteNumber(lat) \/ ~isFiniteNumber(lon) THEN none
      ELSE [hasRecord |-> TRUE,
            record |->
              [id |-> row.id,
               name |-> JsOr(row.name, JsStr("Public toilet")),
               lat |-> lat.n,
               lon |-> lon.n,
               areaName |-> JsOr(row.area, JsStr("Unknown area")),
               accessible |-> row.accessible,
               babyChange |-> row.baby_change,
               noPayment |-> row.no_payment,
               radar |-> row.radar,
               allGender |-> row.all_gender,
               notes |-> row.notes,
               openingTimes |-> row.opening_times,
               updatedAt |-> row.updated_at]]

RECURSIVE parseToilets(_)
parseToilets(rows) ==
  IF rows = <<>> THEN <<>>
  ELSE LET row == Head(rows) IN
       IF row.t = "null" \/ row.active = JsFalse
       THEN parseToilets(Tail(rows))
       ELSE LET parsed == ParseRow(row) IN
            IF parsed.hasRecord
            THEN <<parsed.record>> \o parseToilets(Tail(rows))
            ELSE parseToilets(Tail(rows))

(***************************************************************************)
(* Rows of the US API and normalizeUsToilet (lines 404-431).               *)
(***************************************************************************)
UsRow(id, approved, country, latitude, longitude) ==
  [t |-> "object", id |-> id, name |-> JsStr("Rest  stop"),
   latitude |-> latitude, longitude |-> longitude,
   city |-> JsStr("New York"), state |-> JsStr("NY"),
   accessible |-> JsTrue, changing_table |-> JsFalse, unisex |-> JsTrue,
   directions |-> JsStr("2nd floor"), comment |-> JsNull,
   updated_at |-> JsNull, created_at |-> JsStr("2020-05-05"),
   country |-> country, approved |-> approved]

\* SubSeq("0123456789", d + 1, d + 1) is the digit d.
RECURSIVE DigitsOf(_)
DigitsOf(k) ==
  IF k < 10 THEN SubSeq("0123456789", k + 1, k + 1)
  ELSE DigitsOf(k \div 10) \o SubSeq("0123456789", (k % 10) + 1, (k % 10) + 1)

\* String(v) of a number in tenths.
NumberToString(x) ==
  LET abs == IF x < 0 THEN -x ELSE x
      whole == DigitsOf(abs \div 10)
      text == IF abs % 10 = 0 THEN whole
              ELSE whole \o "." \o DigitsOf(abs % 10)
  IN  IF x < 0 THEN "-" \o text ELSE text

\* String(row.id)
IdString(v) == IF v.t = "number" THEN NumberToString(v.n) ELSE JsString(v)

\* [a, b].filter(Boolean).join(sep), as a text ("" when both are dropped).
JoinTruthy(a, b, sep) ==
  IF Falsy(a) /\ Falsy(b) THEN ""
  ELSE IF Falsy(a) THEN JsString(b)
  ELSE IF Falsy(b) THEN JsString(a)
  ELSE JsString(a) \o sep \o JsString(b)

\* hasRecord is FALSE for null.
normalizeUsToilet(row) ==
  LET lat == ToNumber(row.latitude)
      lon == ToNumber(row.longitude)
      notes == JoinTruthy(clampText(row.directions, 280),
                          clampText(row.comment, 280), " | ")
      area == JoinTruthy(row.city, row.state, ", ")
  IN  IF ~isFiniteNumber(lat) \/ ~isFiniteNumber(lon)
      THEN [hasRecord |-> FALSE, record |-> <<>>]
      ELSE [hasRecord |-> TRUE,
            record |->
              [id |-> JsStr(IdString(row.id)),
               name |-> JsOr(clampText(row.name, 120), JsStr("Public restroom")),
               lat |-> lat.n,
               lon |-> lon.n,
               areaName |-> IF area # "" THEN JsStr(area)
                            ELSE JsStr("Unknown area"),
               accessible |-> IF row.accessible = JsTrue THEN JsTrue ELSE JsFalse,
               babyChange |-> IF row.changing_table = JsTrue THEN JsTrue
                              ELSE JsFalse,
               noPayment |-> JsNull,
               radar |-> JsNull,
               allGender |-> IF row.unisex = JsTrue THEN JsTrue ELSE JsFalse,
               notes |-> JsOr(JsStr(notes), JsNull),
               openingTimes |-> JsNull,
               updatedAt |-> JsOr(JsOr(row.updated_at, row.created_at), JsNull),
               country |-> JsOr(row.country, JsNull),
               approved |-> IF row.approved = JsTrue THEN JsTrue ELSE JsFalse]]


(***************************************************************************)
(* Ranking: .map(distanceKm).sort(by distanceKm).slice(0, limit), lines    *)
(* 598-604 and 485-491.  Array.prototype.sort is stable.                   *)
(***************************************************************************)
WithDistance(toilet, lat, lon) ==
  ("distanceKm" :> haversineKm(lat, lon, toilet.lat, toilet.lon)) @@ toilet

RECURSIVE InsertByDistance_BeforeEqual(_, _)
\* A faulty variant of InsertByDistance, which puts x before the elements as
\* far as x: the sort is then not stable.
InsertByDistance_BeforeEqual(x, sorted) ==
  IF sorted = <<>> THEN <<x>>
  ELSE IF x.distanceKm <= Head(sorted).distanceKm THEN <<x>> \o sorted
  ELSE <<Head(sorted)>> \o InsertByDistance_BeforeEqual(x, Tail(sorted))

RECURSIVE InsertByDistance(_, _)
\* sorted with x put after every element that is not farther than x.
InsertByDistance(x, sorted) ==
  IF sorted = <<>> THEN <<x>>
  ELSE IF x.distanceKm < Head(sorted).distanceKm THEN <<x>> \o sorted
  ELSE <<Head(sorted)>> \o InsertByDistance(x, Tail(sorted))

RECURSIVE SortByDistance(_)
SortByDistance(seq) ==
  IF seq = <<>> THEN <<>>
  ELSE InsertByDistance(seq[Len(seq)], SortByDistance(SubSeq(seq, 1, Len(seq) - 1)))

\* seq.slice(0, limit), for limit >= 0.
Slice(seq, limit) == SubSeq(seq, 1, Min(limit, Len(seq)))

\* A faulty variant of Nearest, without the sort.
Nearest_Unsorted(toilets, lat, lon, limit) ==
  Slice([i \in 1..Len(toilets) |-> WithDistance(toilets[i], lat, lon)], limit)

Nearest(toilets, lat, lon, limit) ==
  Slice(SortByDistance(
          [i \in 1..Len(toilets) |-> WithDistance(toilets[i], lat, lon)]),
        limit)

(***************************************************************************)
(* The network.  A response is chosen when it is delivered.                *)
(*  kind "reject": fetch (or the reading of the body) rejects;             *)
(*  kind "http": a response with a status; response.ok is 200..299.        *)
(***************************************************************************)
ResponseOk(resp) == resp.kind = "http" /\ resp.status \in 200..299

ExportA == "https://a/exports/toilets-1.json?download=1"
ExportBEscaped == "https://b/exports/toilets-2&amp;3.json?download=1"

\* The dataset page, reduced to what DATASET_LINK_REGEX matches in it, in
\* order (datasetPageHtml.match(DATASET_LINK_REGEX) || []).
PageResponses ==
  {[kind |-> "reject", status |-> 0, links |-> <<>>],
   [kind |-> "http", status |-> 503, links |-> <<>>],
   [kind |-> "http", status |-> 200, links |-> <<>>],
   [kind |-> "http", status |-> 200, links |-> <<ExportA>>],
   [kind |-> "http", status |-> 200, links |-> <<ExportBEscaped, ExportA>>]}

RECURSIVE ReplaceAmpFrom(_, _)
\* text.replace(/&amp;/g, "&"), from position i on.
ReplaceAmpFrom(text, i) ==
  IF i > Len(text) THEN ""
  ELSE IF i + 4 <= Len(text) /\ SubSeq(text, i, i + 4) = "&amp;"
  THEN "&" \o ReplaceAmpFrom(text, i + 5)
  ELSE SubSeq(text, i, i) \o ReplaceAmpFrom(text, i + 1)

\* Exports: rows a (11 km north of London), c (Manchester), e (London); one
\* null element, one inactive row and one row with a non-numeric longitude.
DatasetOne ==
  <<UkRow("a", JsTrue, LonLat(-1, 516)),
    UkNullRow,
    UkRow("b", JsFalse, LonLat(-1, 515)),
    UkRow("c", JsUndefined, LonLat(-22, 535)),
    UkRow("d", JsTrue, [isArray |-> TRUE, items |-> <<JsStr("abc"), JsNum(515)>>]),
    UkRow("e", JsTrue, LonLat(-1, 515))>>

\* Rows f and g at the same place (Edinburgh), h with null coordinates, i
\* with one coordinate, j with no coordinates array.
DatasetTwo ==
  <<UkRow("f", JsTrue, LonLat(-32, 559)),
    UkRow("g", JsTrue, LonLat(-32, 559)),
    UkRow("h", JsTrue, [isArray |-> TRUE, items |-> <<JsNull, JsNull>>]),
    UkRow("i", JsTrue, [isArray |-> TRUE, items |-> <<JsNum(-1)>>]),
    UkRow("j", JsTrue, [isArray |-> FALSE, items |-> <<>>])>>

\* Only rows that parseToilets drops.
DatasetNoRecords ==
  <<UkRow("b", JsFalse, LonLat(-1, 515)), UkNullRow>>

\* json is [isArray, rows]: the parsed body.
ExportResponses ==
  {[kind |-> "reject", status |-> 0, isArray |-> FALSE, rows |-> <<>>],
   [kind |-> "http", status |-> 404, isArray |-> FALSE, rows |-> <<>>],
   [kind |-> "http", status |-> 200, isArray |-> FALSE, rows |-> <<>>],
   [kind |-> "http", status |-> 200, isArray |-> TRUE, rows |-> <<>>],
   [kind |-> "http", status |-> 200, isArray |-> TRUE, rows |-> DatasetNoRecords],
   [kind |-> "http", status |-> 200, isArray |-> TRUE, rows |-> DatasetOne],
   [kind |-> "http", status |-> 200, isArray |-> TRUE, rows |-> DatasetTwo]}

\* Pages of the US API near New York (40.7, -74).
UsPageOne ==
  <<UsRow(JsNum(10), JsTrue, JsStr("US"), JsNum(409), JsNum(-740)),
    UsRow(JsNum(20), JsTrue, JsStr("CA"), JsNum(408), JsNum(-740)),
    UsRow(JsNum(30), JsFalse, JsStr("US"), JsNum(407), JsNum(-740))>>

UsPageTwo ==
  <<UsRow(JsNum(40), JsTrue, JsStr("US"), JsNum(407), JsNum(-741)),
    UsRow(JsStr("1"), JsTrue, JsStr("US"), JsNum(407), JsNum(-740)),
    UsRow(JsNum(50), JsTrue, JsStr("US"), JsStr("n/a"), JsNum(-740))>>

UsPageForeign ==
  <<UsRow(JsNum(60), JsTrue, JsStr("CA"), JsNum(450), JsNum(-740)),
    UsRow(JsNum(70), JsTrue, JsNull, JsNum(408), JsNum(-741)),
    UsRow(JsNum(20), JsTrue, JsStr("CA"), JsNum(408), JsNum(-740)),
    UsRow(JsNum(50), JsTrue, JsStr("CA"), JsNum(451), JsNum(-740))>>

UsResponses ==
  {[kind |-> "reject", status |-> 0, isArray |-> FALSE, rows |-> <<>>],
   [kind |-> "http", status |-> 500, isArray |-> FALSE, rows |-> <<>>],
   [kind |-> "http", status |-> 200, isArray |-> FALSE, rows |-> <<>>],
   [kind |-> "http", status |-> 200, isArray |-> TRUE, rows |-> <<>>],
   [kind |-> "http", status |-> 200, isArray |-> TRUE, rows |-> UsPageOne],
   [kind |-> "http", status |-> 200, isArray |-> TRUE, rows |-> UsPageTwo],
   [kind |-> "http", status |-> 200, isArray |-> TRUE, rows |-> UsPageForeign]}


(***************************************************************************)
(* State.                                                                  *)
(***************************************************************************)
VARIABLES
  clock,     \* Date.now()
  ukCache,   \* the module variable ukCache
  pc,        \* pc[r]: the await at which invocation r of the handler is
             \* suspended ("page", "export", "us"), "idle" when there is none
  query,     \* query[r]: the lat, lon and limit parameters of req.url
  local,     \* local[r]: the local variables of the handler, getDataset and
             \* getUsNearest of invocation r
  log,       \* log[r]: the calls and network requests invocation r has made
             \* and the responses it got, in order (observation only)
  sent,      \* the response the last step sent, with the invocation's query,
             \* local variables and log at that moment; NoResponse when the
             \* last step sent none (observation only)
  lastWrite, \* now, sourceUrl and rows of the refresh that wrote the cache
             \* last, and the fetchedAt its write replaced; now is 0 while
             \* there was none (observation only)
  mail       \* mail[r]: invocation r of the handler for /api/feature-request

vars == <<clock, ukCache, pc, query, local, log, sent, lastWrite, mail>>

Reqs == 1..MaxRequests

\* The clock at process start and the step by which it advances.
BootTime == 12 * 60 * 60 * 1000
TickMs == 3 * 60 * 60 * 1000

NoQuery == [lat |-> JsNull, lon |-> JsNull, limit |-> JsNull]

\* The variables of a call before it has run.  received holds the rows of the
\* pages that getUsNearest has been given so far, in order.
InitLocal ==
  [lat |-> JsUndefined, lon |-> JsUndefined, limit |-> 0,
   now |-> 0, sourceUrl |-> "",
   page |-> 0, seenIds |-> {}, candidates |-> <<>>, received |-> <<>>]

EmptyCache == [fetchedAt |-> 0, sourceUrl |-> "", toilets |-> <<>>]

\* An entry of log.
\* n is the offset of a request or the status of a response; rows is the
\* number of rows of a response's array, -1 when there is none.
Event(e, what, n, rows) == [e |-> e, what |-> what, n |-> n, rows |-> rows]

\* The body of a response: sendJson's object, or the text given to res.end.
\* cachedAt stands for new Date(ms).toISOString(), which is one-to-one.
ErrorBody(code) ==
  [error |-> code, text |-> "", count |-> 0, region |-> "",
   lat |-> JsUndefined, lon |-> JsUndefined, limit |-> 0,
   datasetExport |-> "", cachedAt |-> 0, toilets |-> <<>>]

TextBody(text) == [ErrorBody("") EXCEPT !.text = text]

ResultBody(region, lat, lon, limit, datasetExport, cachedAt, toilets) ==
  [error |-> "", text |-> "", count |-> Len(toilets), region |-> region,
   lat |-> lat, lon |-> lon, limit |-> limit,
   datasetExport |-> datasetExport, cachedAt |-> cachedAt, toilets |-> toilets]

NoResponse ==
  [req |-> NoQuery, frame |-> InitLocal, io |-> <<>>, thrown |-> "",
   status |-> 0, body |-> TextBody("")]

\* No feature request has reached invocation r.  timer is the timer of line
\* 277 ("unset", "armed", "fired" or "cancelled"), clears counts the calls
\* of clearTimeout, provider is the promise of emails.send ("idle",
\* "pending" or "settled"), and responses are the responses sent, in order.
NoMail ==
  [pc |-> "idle", method |-> "", body |-> [kind |-> ""], configured |-> FALSE,
   timer |-> "unset", clears |-> 0, provider |-> "idle", responses |-> <<>>]

Init ==
  /\ clock = BootTime
  /\ ukCache = EmptyCache
  /\ pc = [r \in Reqs |-> "idle"]
  /\ query = [r \in Reqs |-> NoQuery]
  /\ local = [r \in Reqs |-> InitLocal]
  /\ log = [r \in Reqs |-> <<>>]
  /\ sent = NoResponse
  /\ lastWrite = [now |-> 0, sourceUrl |-> "", rows |-> <<>>, replaced |-> 0]
  /\ mail = [r \in Reqs |-> NoMail]

(***************************************************************************)
(* Pieces of the handler and of getDataset.                                *)
(***************************************************************************)
\* A faulty variant of cacheIsFresh, with the age taken for seconds.
cacheIsFresh_WrongUnit(now, cache) ==
  now - cache.fetchedAt < CACHE_TTL_MS \div 1000 /\ Len(cache.toilets) > 0

\* now - ukCache.fetchedAt < CACHE_TTL_MS && ukCache.toilets.length > 0
cacheIsFresh(now, cache) ==
  now - cache.fetchedAt < CACHE_TTL_MS /\ Len(cache.toilets) > 0

\* A faulty variant of RefreshedCache, which keeps the sourceUrl of the cache.
RefreshedCache_KeepUrl(now, sourceUrl, rows) ==
  [ukCache EXCEPT !.fetchedAt = now, !.toilets = parseToilets(rows)]

\* A faulty variant of RefreshedCache, which caches the records ranked from
\* the place of a lookup.
RefreshedCache_Ranked(now, sourceUrl, rows) ==
  [fetchedAt |-> now, sourceUrl |-> sourceUrl,
   toilets |-> Nearest(parseToilets(rows), 515, -1, Len(rows))]

\* ukCache = {fetchedAt: now, sourceUrl, toilets: parseToilets(rows)}
\* A faulty variant of RefreshedCache that stamps the cache with the time of
\* the write.
RefreshedCache_StampAtWrite(now, sourceUrl, rows) ==
  [fetchedAt |-> clock, sourceUrl |-> sourceUrl, toilets |-> parseToilets(rows)]

RefreshedCache(now, sourceUrl, rows) ==
  [fetchedAt |-> now, sourceUrl |-> sourceUrl, toilets |-> parseToilets(rows)]

\* A faulty variant of Route, without the test of lines 588-594.
Route_NoValidation(lat, lon) ==
  IF isInUkBounds(lat.n, lon.n) THEN "UK"
  ELSE IF isInUsBounds(lat.n, lon.n) THEN "US"
  ELSE "outside"

\* The chain of tests of the /api/nearest branch (lines 588, 596, 621, 638).
Route(lat, lon) ==
  IF ~isFiniteNumber(lat) \/ ~isFiniteNumber(lon) THEN "invalid"
  ELSE IF isInUkBounds(lat.n, lon.n) THEN "UK"
  ELSE IF isInUsBounds(lat.n, lon.n) THEN "US"
  ELSE "outside"

\* The response of the UK branch for the object getDataset returned.
UkResult(dataset, lat, lon, limit) ==
  ResultBody("UK", lat, lon, limit, dataset.sourceUrl, dataset.fetchedAt,
             Nearest(dataset.toilets, lat.n, lon.n, limit))

\* The invocation ends: its response is sent and its frame is gone.
Respond(r, q, frame, io, thrown, status, body) ==
  /\ sent' = [req |-> q, frame |-> frame, io |-> io, thrown |-> thrown,
              status |-> status, body |-> body]
  /\ pc' = [pc EXCEPT ![r] = "idle"]
  /\ query' = [query EXCEPT ![r] = NoQuery]
  /\ local' = [local EXCEPT ![r] = InitLocal]
  /\ log' = [log EXCEPT ![r] = <<>>]

\* A faulty variant of Caught, which answers with the records of the cache.
Caught_ServeStale(r, io, message) ==
  /\ Respond(r, query[r], local[r], io, message, 200,
             UkResult(ukCache, local[r].lat, local[r].lon, local[r].limit))
  /\ UNCHANGED <<clock, ukCache, lastWrite>>

\* A faulty variant of Caught, which empties the cache.
Caught_DropCache(r, io, message) ==
  /\ Respond(r, query[r], local[r], io, message, 500, TextBody("Internal server error"))
  /\ ukCache' = EmptyCache
  /\ UNCHANGED <<clock, lastWrite>>

\* A faulty variant of Caught, which answers with the candidates accumulated.
Caught_ReturnPartial(r, io, message) ==
  /\ Respond(r, query[r], local[r], io, message, 200,
             ResultBody("US", local[r].lat, local[r].lon, local[r].limit, "", clock,
                        Slice(local[r].candidates, local[r].limit)))
  /\ UNCHANGED <<clock, ukCache, lastWrite>>

\* An error thrown below the handler reaches its catch block (lines
\* 662-671); none of the errors of this model has code ENOENT.
Caught(r, io, message) ==
  /\ Respond(r, query[r], local[r], io, message, 500, TextBody("Internal server error"))
  /\ UNCHANGED <<clock, ukCache, lastWrite>>


(***************************************************************************)
(* Pieces of getUsNearest (lines 433-492).                                 *)
(***************************************************************************)
perPage == 100
maxPages == 4

UsEndpoint == US_API_BASE_URL \o "/restrooms/by_location"

IsUs(toilet) == toilet.country = JsStr("US")

\* candidates.filter((toilet) => toilet.country === "US").length
UsCount(candidates) ==
  Cardinality({i \in 1..Len(candidates) : IsUs(candidates[i])})

RECURSIVE UsAccumulate_LastWins(_, _)
\* A faulty variant of UsAccumulate in which a row whose id was seen replaces
\* the candidate of that id.
UsAccumulate_LastWins(acc, rows) ==
  IF rows = <<>> THEN acc
  ELSE LET row == Head(rows)
           toilet == normalizeUsToilet(row)
       IN  IF row.approved # JsTrue \/ ~toilet.hasRecord
           THEN UsAccumulate_LastWins(acc, Tail(rows))
           ELSE IF toilet.record.id.s \in acc.seenIds
           THEN UsAccumulate_LastWins(
                  [seenIds |-> acc.seenIds,
                   candidates |->
                     [i \in 1..Len(acc.candidates) |->
                        IF acc.candidates[i].id = toilet.record.id
                        THEN toilet.record ELSE acc.candidates[i]]],
                  Tail(rows))
           ELSE UsAccumulate_LastWins(
                  [seenIds |-> acc.seenIds \cup {toilet.record.id.s},
                   candidates |-> Append(acc.candidates, toilet.record)],
                  Tail(rows))

RECURSIVE UsAccumulate(_, _)
\* The for loop over the rows of a page (lines 461-473); acc is
\* [seenIds, candidates].
UsAccumulate(acc, rows) ==
  IF rows = <<>> THEN acc
  ELSE LET row == Head(rows)
           toilet == normalizeUsToilet(row)
       IN  IF row.approved # JsTrue THEN UsAccumulate(acc, Tail(rows))
           ELSE IF ~toilet.hasRecord \/ toilet.record.id.s \in acc.seenIds
           THEN UsAccumulate(acc, Tail(rows))
           ELSE UsAccumulate(
                  [seenIds |-> acc.seenIds \cup {toilet.record.id.s},
                   candidates |-> Append(acc.candidates, toilet.record)],
                  Tail(rows))

\* A faulty variant of UsPool, without the preference for US candidates.
UsPool_Unfiltered(candidates) == candidates

\* candidates.some(US) ? candidates.filter(US) : candidates
UsPool(candidates) ==
  IF \E i \in 1..Len(candidates) : IsUs(candidates[i])
  THEN SelectSeq(candidates, IsUs)
  ELSE candidates

\* A faulty variant of UsLoopEnds, without the break of lines 475-478.
UsLoopEnds_IgnoreCount(page, resp, candidates, limit) ==
  \/ ~resp.isArray
  \/ Len(resp.rows) = 0
  \/ page + 1 >= maxPages

\* Whether the loop is left after the page with index page, whose response
\* was resp and after which the candidates are candidates: by a break (lines
\* 457-459, 475-478) or by its condition page < maxPages (line 439).
UsLoopEnds(page, resp, candidates, limit) ==
  \/ ~resp.isArray
  \/ Len(resp.rows) = 0
  \/ UsCount(candidates) >= limit
  \/ page + 1 >= maxPages

\* The response of the US branch for the candidates accumulated.
UsResult(candidates, lat, lon, limit) ==
  ResultBody("US", lat, lon, limit, "", clock,
             Nearest(UsPool(candidates), lat.n, lon.n, limit))

(***************************************************************************)
(* Actions.                                                                *)
(***************************************************************************)
\* A GET /api/nearest with query q arrives: the handler runs to its first
\* await, or to its response.
Receive(r, q) ==
  /\ pc[r] = "idle"
  /\ UNCHANGED mail
  /\ LET lat == ToNumber(q.lat)
         lon == ToNumber(q.lon)
         limit == ClampLimit(RequestedLimit(q.limit))
         frame == [InitLocal EXCEPT !.lat = lat, !.lon = lon, !.limit = limit]
         route == Route(lat, lon)
         ukFrame == [frame EXCEPT !.now = clock]
         ukCall == <<Event("call", "getDataset", 0, -1)>>
     IN  IF route = "invalid"
         THEN /\ Respond(r, q, frame, <<>>, "", 400, ErrorBody("invalid_coordinates"))
              /\ UNCHANGED <<clock, ukCache, lastWrite>>
         ELSE IF route = "UK"
         THEN IF cacheIsFresh(clock, ukCache)
              THEN /\ Respond(r, q, ukFrame, ukCall, "", 200,
                              UkResult(ukCache, lat, lon, limit))
                   /\ UNCHANGED <<clock, ukCache, lastWrite>>
              ELSE /\ pc' = [pc EXCEPT ![r] = "page"]
                   /\ query' = [query EXCEPT ![r] = q]
                   /\ local' = [local EXCEPT ![r] = ukFrame]
                   /\ log' = [log EXCEPT ![r] =
                                Append(ukCall, Event("fetch", DATASET_PAGE_URL, 0, -1))]
                   /\ sent' = NoResponse
                   /\ UNCHANGED <<clock, ukCache, lastWrite>>
         ELSE IF route = "US"
         THEN /\ pc' = [pc EXCEPT ![r] = "us"]
              /\ query' = [query EXCEPT ![r] = q]
              /\ local' = [local EXCEPT ![r] = frame]
              /\ log' = [log EXCEPT ![r] =
                           <<Event("call", "getUsNearest", 0, -1),
                             Event("fetch", UsEndpoint, 0, -1)>>]
              /\ sent' = NoResponse
              /\ UNCHANGED <<clock, ukCache, lastWrite>>
         ELSE /\ Respond(r, q, frame, <<>>, "", 400,
                         ErrorBody("outside_supported_regions"))
              /\ UNCHANGED <<clock, ukCache, lastWrite>>

\* What the response resp adds to the log.
Got(resp) ==
  Event("response", resp.kind, resp.status,
        IF ResponseOk(resp) /\ resp.isArray
        THEN Len(resp.rows) ELSE -1)

\* The dataset page arrives (lines 365-385).
PageResponse(r, responses) ==
  /\ pc[r] = "page"
  /\ UNCHANGED mail
  /\ \E resp \in responses :
       LET io == Append(log[r], Event("response", resp.kind, resp.status, -1)) IN
       IF resp.kind = "reject"
       THEN Caught(r, io, "fetch failed")
       ELSE IF ~ResponseOk(resp)
       THEN Caught(r, io, "Dataset page request failed (" \o
                          DigitsOf(resp.status) \o ")")
       ELSE IF Len(resp.links) = 0
       THEN Caught(r, io, "Unable to find a JSON export URL in the dataset page.")
       ELSE LET sourceUrl == ReplaceAmpFrom(resp.links[1], 1) IN
            /\ pc' = [pc EXCEPT ![r] = "export"]
            /\ local' = [local EXCEPT ![r].sourceUrl = sourceUrl]
            /\ log' = [log EXCEPT ![r] = Append(io, Event("fetch", sourceUrl, 0, -1))]
            /\ sent' = NoResponse
            /\ UNCHANGED <<clock, ukCache, query, lastWrite>>

\* The export arrives (lines 386-401), and the handler answers (598-618).
ExportResponse(r, responses) ==
  /\ pc[r] = "export"
  /\ UNCHANGED mail
  /\ \E resp \in responses :
       LET io == Append(log[r], Got(resp)) IN
       IF resp.kind = "reject"
       THEN Caught(r, io, "fetch failed")
       ELSE IF ~ResponseOk(resp)
       THEN Caught(r, io, "Dataset JSON request failed (" \o
                          DigitsOf(resp.status) \o ")")
       ELSE IF ~resp.isArray
       THEN Caught(r, io, "Dataset JSON format was not an array.")
       ELSE /\ ukCache' = RefreshedCache(local[r].now, local[r].sourceUrl, resp.rows)
            /\ lastWrite' = [now |-> local[r].now,
                             sourceUrl |-> local[r].sourceUrl,
                             rows |-> resp.rows,
                             replaced |-> ukCache.fetchedAt]
            /\ Respond(r, query[r], local[r], io, "", 200,
                       UkResult(ukCache', local[r].lat, local[r].lon, local[r].limit))
            /\ UNCHANGED clock

\* A page of the US API arrives (lines 452-491), and either the next page is
\* requested or the handler answers (lines 624-635).
UsResponse(r, responses) ==
  /\ pc[r] = "us"
  /\ UNCHANGED mail
  /\ \E resp \in responses :
       LET io == Append(log[r], Got(resp))
           page == local[r].page
           before == [seenIds |-> local[r].seenIds,
                      candidates |-> local[r].candidates]
           acc == IF resp.isArray THEN UsAccumulate(before, resp.rows) ELSE before
           frame == [local[r] EXCEPT !.seenIds = acc.seenIds,
                                     !.candidates = acc.candidates,
                                     !.received = IF resp.isArray
                                                  THEN @ \o resp.rows ELSE @]
       IN  IF resp.kind = "reject"
           THEN Caught(r, io, "fetch failed")
           ELSE IF ~ResponseOk(resp)
           THEN Caught(r, io, "US API request failed (" \o
                              DigitsOf(resp.status) \o ")")
           ELSE IF UsLoopEnds(page, resp, acc.candidates, local[r].limit)
           THEN /\ Respond(r, query[r], frame, io, "", 200,
                           UsResult(acc.candidates, local[r].lat, local[r].lon,
                                    local[r].limit))
                /\ UNCHANGED <<clock, ukCache, lastWrite>>
           ELSE /\ local' = [local EXCEPT ![r] = [frame EXCEPT !.page = page + 1]]
                /\ log' = [log EXCEPT ![r] =
                             Append(io, Event("fetch", UsEndpoint,
                                              (page + 1) * perPage, -1))]
                /\ sent' = NoResponse
                /\ UNCHANGED <<clock, ukCache, pc, query, lastWrite>>

\* Time passes.
Tick ==
  /\ clock < BootTime + MaxTicks * TickMs
  /\ clock' = clock + TickMs
  /\ sent' = NoResponse
  /\ UNCHANGED <<ukCache, pc, query, local, log, lastWrite, mail>>


(***************************************************************************)
(* Inputs and specifications.                                              *)
(***************************************************************************)
Param(texts) == {JsNull} \cup {JsStr(text) : text \in texts}

LatParams ==
  Param({"", "abc", "Infinity", "51.5", "49.8", "60.9", "61", "40.7", "18.5", "18.4"})
LonParams ==
  Param({"abc", "-0.1", "-8.7", "1.8", "1.9", "-74", "-66", "-65.9", "-179.2"})
LimitParams ==
  Param({"", " ", "abc", "Infinity", "0", "1", "2", "2.7", "3", "-3.5", "20", "25"})

London == [lat |-> JsStr("51.5"), lon |-> JsStr("-0.1")]
NewYork == [lat |-> JsStr("40.7"), lon |-> JsStr("-74")]

\* Every pair of coordinates with the default limit, and two places with
\* every limit.
RouteQueries ==
  {[lat |-> lat, lon |-> lon, limit |-> JsNull] :
     lat \in LatParams, lon \in LonParams}
  \cup {[lat |-> place.lat, lon |-> place.lon, limit |-> limit] :
          place \in {London, NewYork}, limit \in LimitParams}

\* Two places with some limits.
LookupQueries ==
  {[lat |-> place.lat, lon |-> place.lon, limit |-> limit] :
     place \in {London, NewYork}, limit \in Param({"1", "2", "3"})}

\* Lookups in London.
CacheQueries == {[lat |-> London.lat, lon |-> London.lon, limit |-> JsNull]}

IsArrayOf(resp, rowsets) ==
  resp.kind = "http" /\ resp.status = 200 /\ resp.isArray /\ resp.rows \in rowsets

\* Requests of every kind, one at a time, against upstreams that answer in
\* few ways.
NextRoute ==
  \/ \E q \in RouteQueries : Receive(1, q)
  \/ PageResponse(1, {resp \in PageResponses : resp.links # <<ExportA>>})
  \/ ExportResponse(1, {resp \in ExportResponses :
                          resp.status = 404 \/ IsArrayOf(resp, {DatasetOne})})
  \/ UsResponse(1, {resp \in UsResponses :
                      resp.status = 500 \/ IsArrayOf(resp, {<<>>, UsPageOne})})

SpecRoute == Init /\ [][NextRoute]_vars

\* Lookups in two places, one at a time, against upstreams that answer in
\* every way.
NextLookup ==
  \/ \E q \in LookupQueries : Receive(1, q)
  \/ PageResponse(1, PageResponses)
  \/ ExportResponse(1, ExportResponses)
  \/ UsResponse(1, UsResponses)

SpecLookup == Init /\ [][NextLookup]_vars

\* Lookups served from the UK dataset, one at a time, while time passes and
\* the upstream answers in every way.
NextStale ==
  \/ \E q \in CacheQueries : Receive(1, q)
  \/ PageResponse(1, PageResponses)
  \/ ExportResponse(1, ExportResponses)
  \/ Tick

SpecStale == Init /\ [][NextStale]_vars

\* Concurrent lookups served from the UK dataset, while time passes.
NextCache ==
  \/ \E r \in Reqs : \E q \in CacheQueries : Receive(r, q)
  \/ \E r \in Reqs :
       PageResponse(r, {resp \in PageResponses :
                          resp.kind = "http" /\ Len(resp.links) > 0})
  \/ \E r \in Reqs :
       ExportResponse(r, {resp \in ExportResponses :
                            \/ resp.status = 200 /\ ~resp.isArray
                            \/ IsArrayOf(resp, {DatasetNoRecords, DatasetOne})})
  \/ Tick

SpecCache == Init /\ [][NextCache]_vars

(***************************************************************************)
(* Feature requests: POST /api/feature-request (lines 505-578),            *)
(* sendFeatureRequestEmail (247-322) and mapEmailSendError (131-213).      *)
(* An error is [message, code, statusCode, responseCode]; code "" and the  *)
(* status codes 0 stand for a property that is not there.                  *)
(***************************************************************************)
\* sanitizeFeatureInput: the clamped text, or "".
sanitizeFeatureInput(value, maxLen) ==
  LET text == clampText(value, maxLen) IN
  IF Falsy(text) THEN "" ELSE text.s

MailError(message, code, statusCode, responseCode) ==
  [message |-> message, code |-> code, statusCode |-> statusCode,
   responseCode |-> responseCode]

\* The error of lines 278-279.
TimeoutError == MailError("resend_timeout", "ERESEND_TIMEOUT", 0, 0)

\* The error thrown for a response that carries an error (lines 285-297).
ResponseError(statusCode) ==
  MailError("resend_request_failed",
            IF statusCode = 401 THEN "ERESEND_AUTH"
            ELSE IF statusCode = 403 THEN "ERESEND_FORBIDDEN"
            ELSE IF statusCode = 429 THEN "ERESEND_RATE_LIMIT"
            ELSE "ERESEND_REQUEST_FAILED",
            0, statusCode)

\* The catch block of sendFeatureRequestEmail (lines 298-316): the error it
\* throws for the error it caught.
CaughtInSend(error) ==
  LET responseCode == IF error.statusCode # 0 THEN error.statusCode
                      ELSE error.responseCode
      code == IF error.code # "" THEN error.code
              ELSE IF responseCode = 401 THEN "ERESEND_AUTH"
              ELSE IF responseCode = 403 THEN "ERESEND_FORBIDDEN"
              ELSE IF responseCode = 429 THEN "ERESEND_RATE_LIMIT"
              ELSE ""
  IN  IF code = ""
      THEN MailError(IF error.message # "" THEN error.message
                     ELSE "resend_network_error", "ERESEND_NETWORK", 0, 0)
      ELSE [error EXCEPT !.code = code, !.responseCode = responseCode]

MailResponse(status, code) == [status |-> status, error |-> code]

\* A faulty variant of mapEmailSendError, without the branch of lines 136-145.
mapEmailSendError_NoTimeout(error) ==
  IF error.code = "ERESEND_AUTH" \/ error.responseCode = 401
  THEN MailResponse(502, "email_auth_failed")
  ELSE MailResponse(502, "email_send_failed")

\* statusCode and body.error of the response for an error.
mapEmailSendError(error) ==
  LET errorCode == IF error.code # "" THEN error.code ELSE "UNKNOWN"
      responseCode == error.responseCode
  IN  IF errorCode \in {"ETIMEDOUT", "ERESEND_TIMEOUT"}
      THEN MailResponse(504, "email_timeout")
      ELSE IF errorCode = "ERESEND_AUTH" \/ responseCode = 401
      THEN MailResponse(502, "email_auth_failed")
      ELSE IF errorCode = "ERESEND_FORBIDDEN" \/ responseCode = 403
      THEN MailResponse(403, "email_sender_not_allowed")
      ELSE IF errorCode = "ERESEND_RATE_LIMIT" \/ responseCode = 429
      THEN MailResponse(429, "email_rate_limited")
      ELSE IF errorCode \in {"ESOCKET", "ECONNECTION", "ENOTFOUND", "ECONNREFUSED",
                             "EHOSTUNREACH", "ERESEND_NETWORK"}
      THEN MailResponse(502, "email_connection_failed")
      ELSE MailResponse(502, "email_send_failed")

\* What readJsonBody settles with: a rejection, or the parsed body.
MailBodies ==
  {[kind |-> kind, subject |-> JsUndefined, message |-> JsUndefined] :
     kind \in {"payload_too_large", "invalid_json", "request_stream_error"}}
  \cup {[kind |-> "json", subject |-> subject, message |-> message] :
          subject \in {JsUndefined, JsStr("  "), JsStr("More  maps")},
          message \in {JsUndefined, JsStr("Please add maps")}}

\* How the promise of emails.send settles: resolved with or without an error
\* (with the statusCode of the error), or rejected with an error.
MailOutcomes ==
  {[kind |-> "resolve", hasError |-> FALSE, error |-> MailError("", "", 0, 0)]}
  \cup {[kind |-> "resolve", hasError |-> TRUE, error |-> MailError("", "", code, 0)] :
          code \in {0, 401, 403, 429, 500}}
  \cup {[kind |-> "reject", hasError |-> TRUE, error |-> error] :
          error \in {MailError("connect ETIMEDOUT", "ETIMEDOUT", 0, 0),
                     MailError("connect ECONNREFUSED", "ECONNREFUSED", 0, 0),
                     MailError("fetch failed", "", 0, 0),
                     MailError("Unauthorized", "", 401, 0)}}

\* sendJson for invocation r, which ends there.
MailRespond(r, status, code) ==
  [mail[r] EXCEPT !.pc = "done",
                  !.responses = Append(@, MailResponse(status, code))]

\* A request for /api/feature-request arrives (lines 505-516).
MailReceive(r, method) ==
  /\ mail[r].pc = "idle"
  /\ mail' = [mail EXCEPT ![r] =
       IF method # "POST"
       THEN [MailRespond(r, 405, "method_not_allowed") EXCEPT !.method = method]
       ELSE [mail[r] EXCEPT !.pc = "body", !.method = method]]
  /\ UNCHANGED <<clock, ukCache, pc, query, local, log, sent, lastWrite>>

\* The body has been read (lines 516-546), and the send starts (247-283):
\* configured is getResendConfig().enabled.
MailBody(r, body, configured) ==
  /\ mail[r].pc = "body"
  /\ LET subject == sanitizeFeatureInput(body.subject, 120)
         message == sanitizeFeatureInput(body.message, 3000)
         read == [mail[r] EXCEPT !.body = body, !.configured = configured]
     IN  mail' = [mail EXCEPT ![r] =
           IF body.kind = "payload_too_large"
           THEN [read EXCEPT !.pc = "done",
                             !.responses = <<MailResponse(413, "payload_too_large")>>]
           ELSE IF body.kind # "json"
           THEN [read EXCEPT !.pc = "done",
                             !.responses = <<MailResponse(400, "invalid_payload")>>]
           ELSE IF subject = "" \/ message = ""
           THEN [read EXCEPT !.pc = "done",
                             !.responses = <<MailResponse(400, "missing_fields")>>]
           ELSE IF ~configured
           THEN [read EXCEPT !.pc = "done",
                             !.responses = <<MailResponse(503, "email_not_configured")>>]
           ELSE [read EXCEPT !.pc = "send", !.timer = "armed",
                             !.provider = "pending"]]
  /\ UNCHANGED <<clock, ukCache, pc, query, local, log, sent, lastWrite>>

\* The send is left with error: the finally block (lines 317-321) and the
\* catch block of the handler (556-577).
MailFailed(r, error) ==
  LET response == mapEmailSendError(CaughtInSend(error)) IN
  [mail[r] EXCEPT !.pc = "done", !.clears = @ + 1,
                  !.responses = Append(@, response)]

\* The timer of line 277 fires after RESEND_SEND_TIMEOUT_MS: the race is
\* rejected with the timeout error.
MailTimeout(r) ==
  /\ mail[r].timer = "armed"
  /\ mail' = [mail EXCEPT ![r] =
       IF mail[r].pc = "send"
       THEN [MailFailed(r, TimeoutError) EXCEPT !.timer = "fired"]
       ELSE [mail[r] EXCEPT !.timer = "fired"]]
  /\ UNCHANGED <<clock, ukCache, pc, query, local, log, sent, lastWrite>>

\* The promise of emails.send settles.  While the race is undecided it
\* decides it (lines 285-321 and 550-577); afterwards nobody listens.
MailProvider(r, outcome) ==
  /\ mail[r].provider = "pending"
  /\ mail' = [mail EXCEPT ![r] =
       IF mail[r].pc # "send"
       THEN [mail[r] EXCEPT !.provider = "settled"]
       ELSE IF outcome.kind = "resolve" /\ ~outcome.hasError
       THEN [mail[r] EXCEPT !.pc = "done", !.provider = "settled",
                            !.timer = "cancelled", !.clears = @ + 1,
                            !.responses = Append(@, MailResponse(200, ""))]
       ELSE [MailFailed(r, IF outcome.kind = "resolve"
                           THEN ResponseError(outcome.error.statusCode)
                           ELSE outcome.error)
               EXCEPT !.provider = "settled", !.timer = "cancelled"]]
  /\ UNCHANGED <<clock, ukCache, pc, query, local, log, sent, lastWrite>>

\* Feature requests, several at a time.
NextMail ==
  \/ \E r \in Reqs : \E method \in {"GET", "POST"} : MailReceive(r, method)
  \/ \E r \in Reqs : \E body \in MailBodies : \E configured \in BOOLEAN :
       MailBody(r, body, configured)
  \/ \E r \in Reqs : MailTimeout(r)
  \/ \E r \in Reqs : \E outcome \in MailOutcomes : MailProvider(r, outcome)

SpecMail == Init /\ [][NextMail]_vars

(***************************************************************************)
(* What the claims speak of.                                               *)
(***************************************************************************)
CallOf(name) == Event("call", name, 0, -1)

IsFetch(ev) == ev.e = "fetch"

\* The log of a call of getDataset that made no network request.
NoFetchLog == <<CallOf("getDataset")>>

\* The log of a call of getDataset that fetched the dataset page and then the
\* export, and got both.
IsFullRefreshLog(io) ==
  /\ Len(io) = 5
  /\ io[1] = CallOf("getDataset")
  /\ io[2] = Event("fetch", DATASET_PAGE_URL, 0, -1)
  /\ io[3].e = "response" /\ io[3].n \in 200..299
  /\ IsFetch(io[4]) /\ io[4].what # DATASET_PAGE_URL
  /\ io[5].e = "response" /\ io[5].n \in 200..299 /\ io[5].rows >= 0

\* The log of a call of getDataset whose refresh failed: it ends with the
\* answer to the page request (a refresh that gets past the page goes on to
\* the export), or with an export answer that is a rejection, a non-success
\* status or not an array.
IsFailedRefreshLog(io) ==
  /\ Len(io) \in {3, 5}
  /\ io[1] = CallOf("getDataset")
  /\ io[Len(io)].e = "response"
  /\ \/ Len(io) = 3
     \/ io[5].what = "reject"
     \/ io[5].n \notin 200..299
     \/ io[5].rows = -1

\* This step, a call of getDataset starts and goes to the network.
StartsRefresh == \E r \in Reqs : pc[r] = "idle" /\ pc'[r] = "page"

\* This step, a call of getDataset starts and is answered from the cache.
ServedFromCache == sent' # NoResponse /\ sent'.status = 200 /\ sent'.io = NoFetchLog

\* C1 as stated: a getDataset() call that starts less than CACHE_TTL_MS after
\* the fetch of a completed successful refresh makes no network request and
\* returns that refresh's fetchedAt.
C1_AnySuccessfulRefreshIsServed ==
  [][(StartsRefresh \/ ServedFromCache)
       /\ lastWrite.now > 0
       /\ clock - lastWrite.now < 6 * 60 * 60 * 1000
     => ServedFromCache /\ sent'.body.cachedAt = lastWrite.now]_vars

\* C1, amended: when the refresh that wrote the cache last stored at least one
\* record, a getDataset() call that starts less than 6 hours after that
\* refresh's fetch makes no network request, returns that refresh's fetchedAt
\* and leaves the cache as it is.
C1_FreshCacheIsServed ==
  [][(StartsRefresh \/ ServedFromCache)
       /\ lastWrite.now > 0
       /\ Len(ukCache.toilets) > 0
       /\ clock - lastWrite.now < 6 * 60 * 60 * 1000
     => /\ ServedFromCache
        /\ sent'.body.cachedAt = lastWrite.now
        /\ ukCache' = ukCache]_vars

\* A call is answered from the cache some time after the refresh it returns.
C1_Witness ==
  /\ sent.status = 200
  /\ sent.io = NoFetchLog
  /\ sent.body.cachedAt < clock
  /\ sent.body.cachedAt = lastWrite.now

\* C2: the step in which a refresh fails leaves the cache as it is, and the
\* cache changes only in a step in which a call completes its refresh (so a
\* call whose refresh fails has at no point written the cache).
C2_FailedRefreshLeavesCache ==
  [][/\ \A r \in Reqs :
          pc[r] \in {"page", "export"} /\ pc'[r] = "idle" /\ sent'.status # 200
          => ukCache' = ukCache
     /\ ukCache' # ukCache
          => \E r \in Reqs :
               /\ pc[r] = "export" /\ pc'[r] = "idle"
               /\ sent'.status = 200 /\ IsFullRefreshLog(sent'.io)]_vars

\* A refresh has just failed on each kind of failure while the cache holds
\* the records of an earlier pull: here, on a payload that is not an array.
C2_Witness ==
  /\ IsFailedRefreshLog(sent.io)
  /\ Len(sent.io) = 5 /\ sent.io[5].n = 200 /\ sent.io[5].rows = -1
  /\ Len(ukCache.toilets) > 0
  /\ ukCache = RefreshedCache(lastWrite.now, lastWrite.sourceUrl, lastWrite.rows)

\* C3: a call of getDataset whose refresh fails is answered with an error and
\* with no records, whatever the cache holds.
C3_FailedRefreshIsAnError ==
  sent # NoResponse /\ IsFailedRefreshLog(sent.io)
  => /\ sent.status = 500
     /\ sent.thrown # ""
     /\ sent.body.text = "Internal server error"
     /\ sent.body.toilets = <<>>
     /\ sent.body.count = 0

\* A refresh has just failed while the cache holds records that are no
\* longer fresh.
C3_Witness ==
  /\ IsFailedRefreshLog(sent.io)
  /\ sent.status = 500
  /\ Len(ukCache.toilets) > 0
  /\ clock - ukCache.fetchedAt >= CACHE_TTL_MS

\* The cache is empty, or what the refresh that wrote last computed from its
\* own now, sourceUrl and rows.
CacheIsLastWrite ==
  IF lastWrite.now = 0 THEN ukCache = EmptyCache
  ELSE /\ ukCache.fetchedAt = lastWrite.now
       /\ ukCache.sourceUrl = lastWrite.sourceUrl
       /\ ukCache.toilets = parseToilets(lastWrite.rows)

\* C4: a call is answered without a network request of its own only when the
\* cache is fresh as it starts, whatever other calls are in flight; every other
\* successful call has made its own page and export requests; and the cache
\* always is the triple written by the refresh that wrote last.
C4_NoSingleFlightLastWriterWins ==
  [][/\ CacheIsLastWrite
     /\ CacheIsLastWrite'
     /\ sent' # NoResponse /\ sent'.status = 200
          => \/ IsFullRefreshLog(sent'.io)
             \/ /\ sent'.io = NoFetchLog
                /\ Len(ukCache.toilets) > 0
                /\ clock - ukCache.fetchedAt < 6 * 60 * 60 * 1000
     /\ \A r \in Reqs :
          /\ pc[r] = "idle" /\ pc'[r] # "idle"
          /\ \E other \in Reqs : pc[other] # "idle"
          => pc'[r] = "page" /\ IsFetch(log'[r][Len(log'[r])])]_vars

\* A refresh that started later has written the cache while a refresh that
\* started earlier, with another sourceUrl, is still waiting for its export.
C4_Witness ==
  /\ sent.status = 200
  /\ IsFullRefreshLog(sent.io)
  /\ ukCache.fetchedAt = sent.frame.now
  /\ \E r \in Reqs :
       /\ pc[r] = "export"
       /\ local[r].now < ukCache.fetchedAt
       /\ local[r].sourceUrl # ukCache.sourceUrl

\* The handler's lat and lon are both finite numbers.
FiniteCoordinates(frame) == frame.lat.t = "number" /\ frame.lon.t = "number"

\* The UK box and the US box, bounds included, in tenths of a degree.
InUkBox(frame) ==
  /\ frame.lat.n >= 498 /\ frame.lat.n <= 609
  /\ frame.lon.n >= -87 /\ frame.lon.n <= 18

InUsBox(frame) ==
  /\ frame.lat.n >= 185 /\ frame.lat.n <= 716
  /\ frame.lon.n >= -1792 /\ frame.lon.n <= -660

Supported(frame) == FiniteCoordinates(frame) /\ (InUkBox(frame) \/ InUsBox(frame))

\* C5: a lookup whose lat or lon is not a finite number is answered 400
\* invalid_coordinates, and one whose finite coordinates lie in neither box
\* 400 outside_supported_regions; both are answered in the step that receives
\* them, with no upstream request made and the cache left as it is, and no such
\* lookup is ever waiting for an upstream.
C5_UnsupportedCoordinatesAreRejected ==
  [][/\ \A r \in Reqs : pc'[r] # "idle" => Supported(local'[r])
     /\ sent' # NoResponse /\ ~Supported(sent'.frame)
          => /\ sent'.status = 400
             /\ sent'.body.error = IF FiniteCoordinates(sent'.frame)
                                   THEN "outside_supported_regions"
                                   ELSE "invalid_coordinates"
             /\ sent'.io = <<>>
             /\ \A r \in Reqs : log'[r] = log[r]
             /\ ukCache' = ukCache
             /\ lastWrite' = lastWrite]_vars

\* A lookup whose lon is no number has been rejected while the cache holds
\* records.
C5_Witness ==
  /\ sent.status = 400
  /\ sent.body.error = "invalid_coordinates"
  /\ sent.frame.lat.t = "number" /\ sent.frame.lon.t # "number"
  /\ sent.io = <<>>
  /\ Len(ukCache.toilets) > 0

\* The log holds nothing of the US provider.
OnlyDatasetLog(io) ==
  /\ Len(io) > 0
  /\ io[1] = CallOf("getDataset")
  /\ \A i \in 1..Len(io) :
       io[i] # CallOf("getUsNearest") /\ (IsFetch(io[i]) => io[i].what # UsEndpoint)

\* The log holds nothing of the UK dataset.
OnlyUsLog(io) ==
  /\ Len(io) > 0
  /\ io[1] = CallOf("getUsNearest")
  /\ \A i \in 1..Len(io) :
       io[i] # CallOf("getDataset") /\ (IsFetch(io[i]) => io[i].what = UsEndpoint)

\* C6: a lookup at finite coordinates inside the UK box is served by the
\* dataset path and nothing of the US API is called for it; otherwise, inside
\* the US box, it is served by the proximity path and nothing of the dataset
\* is called for it; otherwise it is rejected.
C6_RegionDispatch ==
  /\ \A r \in Reqs :
       pc[r] # "idle" /\ FiniteCoordinates(local[r])
       => IF InUkBox(local[r])
          THEN pc[r] \in {"page", "export"} /\ OnlyDatasetLog(log[r])
          ELSE IF InUsBox(local[r])
          THEN pc[r] = "us" /\ OnlyUsLog(log[r])
          ELSE FALSE
  /\ sent # NoResponse /\ FiniteCoordinates(sent.frame)
       => IF InUkBox(sent.frame)
          THEN /\ OnlyDatasetLog(sent.io)
               /\ sent.status \in {200, 500}
               /\ sent.status = 200 => sent.body.region = "UK"
          ELSE IF InUsBox(sent.frame)
          THEN /\ OnlyUsLog(sent.io)
               /\ sent.status \in {200, 500}
               /\ sent.status = 200 => sent.body.region = "US"
          ELSE /\ sent.status = 400
               /\ sent.body.error = "outside_supported_regions"
               /\ sent.io = <<>>

\* A lookup on the southern and western bounds of the UK box has been served
\* from the dataset.
C6_Witness ==
  /\ sent.status = 200
  /\ sent.body.region = "UK"
  /\ sent.frame.lat.n = 498
  /\ sent.frame.lon.n = -87
  /\ OnlyDatasetLog(sent.io)

\* The limit the claim gives for a limit parameter: the requested value is
\* Number(parameter || 5), in tenths.
ClaimedLimit(param) ==
  LET requested == ToNumber(JsOr(param, JsNum(50)))
      floor == requested.n \div 10
  IN  IF param = JsNull \/ requested.t # "number" THEN 5
      ELSE IF floor < 1 THEN 1
      ELSE IF floor > 20 THEN 20
      ELSE floor

\* C7: the limit a lookup works with, and the one a successful answer
\* reports, is an integer of 1..20: 5 when the parameter is absent or is not a
\* finite number, and else the floor of the requested value clamped into
\* 1..20.
C7_EffectiveLimit ==
  /\ \A r \in Reqs :
       pc[r] # "idle"
       => local[r].limit \in 1..20 /\ local[r].limit = ClaimedLimit(query[r].limit)
  /\ sent # NoResponse
       => /\ sent.frame.limit \in 1..20
          /\ sent.frame.limit = ClaimedLimit(sent.req.limit)
          /\ sent.status = 200
               => /\ sent.body.limit = sent.frame.limit
                  /\ Len(sent.body.toilets) <= sent.frame.limit

\* A lookup that asked for -3.5 records has been served with limit 1.
C7_Witness ==
  /\ sent.status = 200
  /\ sent.req.limit = JsStr("-3.5")
  /\ sent.body.limit = 1
  /\ Len(sent.body.toilets) = 1

\* The distances of out never decrease.
SortedByDistance(out) ==
  \A i \in 1..Len(out) - 1 : out[i].distanceKm <= out[i + 1].distanceKm

\* record is toilet with its distance from (lat, lon).
IsRanked(record, toilet, lat, lon) ==
  /\ DOMAIN record = DOMAIN toilet \cup {"distanceKm"}
  /\ \A field \in DOMAIN toilet : record[field] = toilet[field]
  /\ record.distanceKm = haversineKm(lat, lon, toilet.lat, toilet.lon)

\* out is limit of the records of pool whose index is in among, or all of them
\* if they are fewer, each with its distance from (lat, lon), and no record
\* left out is nearer than one of out.
IsNearestOf(out, pool, among, lat, lon, limit) ==
  /\ Len(out) = IF Cardinality(among) < limit THEN Cardinality(among) ELSE limit
  /\ \E chosen \in [1..Len(out) -> among] :
       /\ \A i, j \in 1..Len(out) : chosen[i] = chosen[j] => i = j
       /\ \A i \in 1..Len(out) : IsRanked(out[i], pool[chosen[i]], lat, lon)
       /\ \A k \in among \ {chosen[i] : i \in 1..Len(out)} :
            \A i \in 1..Len(out) :
              out[i].distanceKm <= haversineKm(lat, lon, pool[k].lat, pool[k].lon)

\* C8: a successful lookup returns at most limit records, in an order in which
\* distanceKm never decreases; on the UK path they are the limit nearest
\* records of the cache, or all of them when the cache holds fewer.
C8_NearestFirst ==
  sent # NoResponse /\ sent.status = 200
  => /\ Len(sent.body.toilets) <= sent.frame.limit
     /\ sent.body.count = Len(sent.body.toilets)
     /\ SortedByDistance(sent.body.toilets)
     /\ sent.body.region = "UK"
          => IsNearestOf(sent.body.toilets, ukCache.toilets,
                         1..Len(ukCache.toilets),
                         sent.frame.lat.n, sent.frame.lon.n, sent.frame.limit)

\* A UK lookup has returned fewer records than the cache holds, at growing
\* distances, the first of them not the first of the cache.
C8_Witness ==
  /\ sent.status = 200
  /\ sent.body.region = "UK"
  /\ Len(sent.body.toilets) = sent.frame.limit
  /\ Len(sent.body.toilets) >= 2
  /\ Len(ukCache.toilets) > sent.frame.limit
  /\ sent.body.toilets[1].id # ukCache.toilets[1].id
  /\ sent.body.toilets[1].distanceKm < sent.body.toilets[2].distanceKm

\* The requests of pages of the US API in a log.
UsFetches(io) == {i \in 1..Len(io) : IsFetch(io[i]) /\ io[i].what = UsEndpoint}

\* C9: a call of getUsNearest asks for its pages one after the other, at
\* offsets 0, 100, 200 and 300 in that order and for four pages at most, and
\* asks for a next page only after a page that was not empty and while fewer
\* than limit US candidates are accumulated.
C9_UsPaging ==
  [][\A r \in Reqs :
       LET before == log[r]
           after == log'[r]
           last == Len(after)
           asked == Cardinality(UsFetches(before))
       IN  after # before /\ last \in UsFetches(after)
           => /\ asked < 4
              /\ after[last].n = 100 * asked
              /\ UsFetches(after) = UsFetches(before) \cup {last}
              /\ IF asked = 0
                 THEN after[last - 1] = CallOf("getUsNearest")
                 ELSE /\ after[last - 1].e = "response"
                      /\ after[last - 1].n \in 200..299
                      /\ after[last - 1].rows > 0
                      /\ last - 2 \in UsFetches(before)
                      /\ Cardinality({i \in 1..Len(local'[r].candidates) :
                                        local'[r].candidates[i].country = JsStr("US")})
                           < local'[r].limit]_vars

\* A call has asked for four pages, the last at offset 300.
C9_Witness ==
  \E r \in Reqs :
    /\ pc[r] = "us"
    /\ Cardinality(UsFetches(log[r])) = 4
    /\ log[r][Len(log[r])].n = 300

\* The candidates of country US.
UsIndices(candidates) ==
  {i \in 1..Len(candidates) : candidates[i].country = JsStr("US")}

\* C10: when a candidate accumulated by getUsNearest has country "US", the
\* records returned are the nearest of the US candidates only; when none has,
\* they are the nearest of all the candidates.
C10_UsPoolPreference ==
  sent # NoResponse /\ sent.status = 200 /\ sent.body.region = "US"
  => LET candidates == sent.frame.candidates
         us == UsIndices(candidates)
     IN  IsNearestOf(sent.body.toilets, candidates,
                     IF us # {} THEN us ELSE 1..Len(candidates),
                     sent.frame.lat.n, sent.frame.lon.n, sent.frame.limit)

\* A US lookup has returned a US record although a candidate of another
\* country is nearer.
C10_Witness ==
  /\ sent.status = 200
  /\ sent.body.region = "US"
  /\ Len(sent.body.toilets) >= 1
  /\ sent.body.toilets[1].country = JsStr("US")
  /\ \E i \in 1..Len(sent.frame.candidates) :
       /\ sent.frame.candidates[i].country # JsStr("US")
       /\ haversineKm(sent.frame.lat.n, sent.frame.lon.n,
                      sent.frame.candidates[i].lat, sent.frame.candidates[i].lon)
            < sent.body.toilets[1].distanceKm

\* The answer to a request was an HTTP status that is no success.
IsHttpFailure(ev) == ev.e = "response" /\ ev.what = "http" /\ ev.n \notin 200..299

\* C11: when a page request of getUsNearest is answered with a non-success
\* status the lookup ends there: the failed answer is the last event of the
\* call (no further page is requested and the request is not repeated), the
\* caller gets an error and none of the candidates accumulated; and no call
\* still in flight has seen such an answer.
C11_FailedPageFailsLookup ==
  /\ \A r \in Reqs : \A i \in 1..Len(log[r]) : ~IsHttpFailure(log[r][i])
  /\ sent # NoResponse /\ OnlyUsLog(sent.io)
     /\ (\E i \in 1..Len(sent.io) : IsHttpFailure(sent.io[i]))
       => /\ IsHttpFailure(sent.io[Len(sent.io)])
          /\ \A i \in 1..Len(sent.io) - 1 : ~IsHttpFailure(sent.io[i])
          /\ Cardinality(UsFetches(sent.io)) * 2 + 1 = Len(sent.io)
          /\ sent.status = 500
          /\ sent.thrown # ""
          /\ sent.body.toilets = <<>>
          /\ sent.body.count = 0

\* The second page of a lookup has failed after the first brought candidates.
C11_Witness ==
  /\ sent.status = 500
  /\ OnlyUsLog(sent.io)
  /\ IsHttpFailure(sent.io[Len(sent.io)])
  /\ Cardinality(UsFetches(sent.io)) = 2
  /\ Len(sent.frame.candidates) > 0

RECURSIVE ContainsFrom(_, _, _)
\* part occurs in text at position i or later.
ContainsFrom(text, part, i) ==
  IF i + Len(part) - 1 > Len(text) THEN FALSE
  ELSE IF SubSeq(text, i, i + Len(part) - 1) = part THEN TRUE
  ELSE ContainsFrom(text, part, i + 1)

\* What the body of a response says: its error code and its text.
Says(body, part) == ContainsFrom(body.error, part, 1) \/ ContainsFrom(body.text, part, 1)

\* The last event of a call that ended on a failure of its upstream.
LastEvent(io) == io[Len(io)]

\* C12 as stated: when an upstream call fails during a lookup, the response is
\* no success, carries a machine-readable error code, names the provider that
\* failed, and carries the upstream status where there is one.
C12_UpstreamFailureIsTyped ==
  sent # NoResponse /\ sent.thrown # ""
  => /\ sent.status \notin 200..299
     /\ sent.body.toilets = <<>>
     /\ sent.body.error # ""
     /\ IF OnlyUsLog(sent.io)
        THEN Says(sent.body, "US") \/ Says(sent.body, "Refuge")
        ELSE Says(sent.body, "UK") \/ Says(sent.body, "Dataset") \/ Says(sent.body, "dataset")
     /\ IsHttpFailure(LastEvent(sent.io))
          => Says(sent.body, DigitsOf(LastEvent(sent.io).n))

\* The value is there and is a finite number (or the numeral of one).
IsCoordinate(v) == v.t = "number" \/ (v.t = "string" /\ v.s \in DOMAIN Numerals)

\* The row of the dataset export has a longitude and a latitude.
HasCoordinates(row) ==
  /\ row.coordinates.isArray
  /\ Len(row.coordinates.items) >= 2
  /\ IsCoordinate(row.coordinates.items[1])
  /\ IsCoordinate(row.coordinates.items[2])

\* C13 as stated, for the dataset: a row of the export whose latitude or
\* longitude is missing or not a finite number has no record in the cache that
\* the export was parsed into, and none in an answer served from it.
C13_NoRecordWithoutCoordinates ==
  \A i \in 1..Len(lastWrite.rows) :
    LET row == lastWrite.rows[i] IN
    ~HasCoordinates(row)
    => /\ \A k \in 1..Len(ukCache.toilets) : ukCache.toilets[k].id # row.id
       /\ sent # NoResponse /\ sent.status = 200 /\ sent.body.region = "UK"
            => \A k \in 1..Len(sent.body.toilets) : sent.body.toilets[k].id # row.id

\* C14: the records of the cache never carry a distanceKm; they are, in
\* content and order, what parseToilets made of the rows of the refresh that
\* wrote last; a lookup served from the cache leaves the cache as it is, and so
\* does every step that does not complete a refresh.
C14_LookupsDoNotWriteCache ==
  [][/\ \A k \in 1..Len(ukCache'.toilets) :
          "distanceKm" \notin DOMAIN ukCache'.toilets[k]
     /\ ukCache'.toilets = parseToilets(lastWrite'.rows)
     /\ ServedFromCache => ukCache' = ukCache /\ lastWrite' = lastWrite
     /\ (\A r \in Reqs : ~(pc[r] = "export" /\ pc'[r] = "idle" /\ sent'.status = 200))
          => ukCache' = ukCache]_vars

\* A lookup has been served from the cache, after another one, with records
\* ranked in another order than the cache keeps them.
C14_Witness ==
  /\ sent.status = 200
  /\ sent.io = NoFetchLog
  /\ Len(sent.body.toilets) >= 2
  /\ sent.body.toilets[1].id # ukCache.toilets[1].id
  /\ "distanceKm" \in DOMAIN sent.body.toilets[1]
  /\ ukCache.toilets = parseToilets(lastWrite.rows)

\* The text has no white space at its ends and no run of white space.
IsWhitespaceNormalized(text) ==
  /\ Len(text) > 0
  /\ SubSeq(text, 1, 1) # " "
  /\ SubSeq(text, Len(text), Len(text)) # " "
  /\ \A i \in 1..Len(text) - 1 : SubSeq(text, i, i + 1) # "  "

\* C15 as stated: the notes of every record returned by a lookup is null or a
\* whitespace-normalized text of at most 280 characters.
C15_NotesAreClamped ==
  sent # NoResponse /\ sent.status = 200
  => \A k \in 1..Len(sent.body.toilets) :
       LET notes == sent.body.toilets[k].notes IN
       \/ notes = JsNull
       \/ /\ notes.t = "string"
          /\ Len(notes.s) <= 280
          /\ IsWhitespaceNormalized(notes.s)

\* C16 as stated: a record returned by a proximity-path lookup has the fields
\* that a record returned by a bulk-path lookup has (those of a cached record
\* and distanceKm), neither more nor fewer.
C16_SameFieldsFromBothProviders ==
  /\ sent # NoResponse /\ sent.status = 200 /\ sent.body.region = "US"
  /\ Len(ukCache.toilets) > 0
  => \A k \in 1..Len(sent.body.toilets) :
       DOMAIN sent.body.toilets[k] = DOMAIN ukCache.toilets[1] \cup {"distanceKm"}

\* The feature request of invocation r is well-formed and the provider is
\* configured.
IsWellFormedMail(m) ==
  /\ m.method = "POST"
  /\ m.body.kind = "json"
  /\ m.body.subject.t = "string" /\ m.body.subject.s \notin {"", " ", "  "}
  /\ m.body.message.t = "string" /\ m.body.message.s \notin {"", " ", "  "}
  /\ m.configured

\* C17: for a well-formed feature request with the provider configured, the
\* step in which the timer fires before the provider has answered sends 504
\* email_timeout as the only response; a request that has been answered is
\* never answered again, whatever the provider does afterwards; and whenever
\* the send has been left, clearTimeout has been called once and no timer is
\* left armed.
C17_SendTimeout ==
  [][\A r \in Reqs :
       /\ mail[r].timer = "armed" /\ mail'[r].timer = "fired"
          /\ mail[r].provider = "pending" /\ IsWellFormedMail(mail[r])
            => mail'[r].responses = <<MailResponse(504, "email_timeout")>>
       /\ mail[r].responses # <<>> => mail'[r].responses = mail[r].responses
       /\ Len(mail'[r].responses) <= 1
       /\ mail'[r].timer # "unset"
            => /\ IsWellFormedMail(mail'[r])
               /\ mail'[r].pc = "send" <=> mail'[r].timer = "armed"
               /\ mail'[r].pc = "done" => mail'[r].clears = 1]_vars

\* A request was answered 504 email_timeout, and the provider has answered
\* afterwards.
C17_Witness ==
  \E r \in Reqs :
    /\ mail[r].timer = "fired"
    /\ mail[r].provider = "settled"
    /\ mail[r].clears = 1
    /\ mail[r].responses = <<MailResponse(504, "email_timeout")>>

\* The place in the cache of the record with this id.
CachePlace(id) == CHOOSE k \in 1..Len(ukCache.toilets) : ukCache.toilets[k].id = id

\* C18: in an answer of the UK path, two records at the same distance are in
\* the order they have in the cache, and a cached record that was cut off comes
\* later in the cache than every returned record at its distance.
C18_TiesKeepDatasetOrder ==
  sent # NoResponse /\ sent.status = 200 /\ sent.body.region = "UK"
  => LET out == sent.body.toilets IN
     /\ \A i, j \in 1..Len(out) :
          i < j /\ out[i].distanceKm = out[j].distanceKm
          => CachePlace(out[i].id) < CachePlace(out[j].id)
     /\ \A k \in 1..Len(ukCache.toilets) :
          (\A i \in 1..Len(out) : out[i].id # ukCache.toilets[k].id)
          => \A i \in 1..Len(out) :
               out[i].distanceKm = haversineKm(sent.frame.lat.n, sent.frame.lon.n,
                                               ukCache.toilets[k].lat,
                                               ukCache.toilets[k].lon)
               => CachePlace(out[i].id) < k

\* Of two cached records at one place, a lookup with limit 1 has returned the
\* first and cut off the second.
C18_Witness ==
  /\ sent.status = 200
  /\ sent.body.region = "UK"
  /\ Len(sent.body.toilets) = 1
  /\ \E k \in 1..Len(ukCache.toilets) :
       /\ ukCache.toilets[k].id # sent.body.toilets[1].id
       /\ ukCache.toilets[k].lat = sent.body.toilets[1].lat
       /\ ukCache.toilets[k].lon = sent.body.toilets[1].lon
       /\ CachePlace(sent.body.toilets[1].id) < k

\* The frames of the US lookups that the state shows: those of the invocations
\* and that of the lookup answered by the last step.
UsFrames == {local[r] : r \in Reqs} \cup {sent.frame}

\* The approved rows of received, by index, whose id is that of record.
ApprovedOccurrences(received, record) ==
  {k \in 1..Len(received) :
     /\ received[k].approved = JsTrue
     /\ JsStr(IdString(received[k].id)) = record.id}

\* The approved rows of received with the id of record from which
\* normalizeUsToilet makes a record.
RecordOccurrences(received, record) ==
  {k \in ApprovedOccurrences(received, record) :
     normalizeUsToilet(received[k]).hasRecord}

\* The first of a nonempty set of indices.
First(indices) == CHOOSE k \in indices : \A other \in indices : k <= other

\* The candidates have pairwise distinct ids and are approved.
DistinctAndApproved(candidates) ==
  /\ \A i, j \in 1..Len(candidates) :
       i # j => candidates[i].id # candidates[j].id
  /\ \A i \in 1..Len(candidates) : candidates[i].approved = JsTrue

\* C19, as stated: the candidates accumulated by getUsNearest have pairwise
\* distinct ids, each comes from an approved row, and the candidate of an id is
\* the record of the first approved row received with that id.
C19_FirstApprovedOccurrenceKept ==
  \A frame \in UsFrames :
    /\ DistinctAndApproved(frame.candidates)
    /\ \A i \in 1..Len(frame.candidates) :
         LET rows == ApprovedOccurrences(frame.received, frame.candidates[i])
         IN  /\ rows # {}
             /\ normalizeUsToilet(frame.received[First(rows)])
                  = [hasRecord |-> TRUE, record |-> frame.candidates[i]]

\* C19, amended: the candidates accumulated by getUsNearest have pairwise
\* distinct ids, each comes from an approved row, and the candidate of an id is
\* the record of the first approved row received with that id that has finite
\* coordinates; every id of such a row has a candidate.
C19_FirstRecordOccurrenceKept ==
  \A frame \in UsFrames :
    /\ DistinctAndApproved(frame.candidates)
    /\ \A i \in 1..Len(frame.candidates) :
         LET rows == RecordOccurrences(frame.received, frame.candidates[i])
         IN  /\ rows # {}
             /\ normalizeUsToilet(frame.received[First(rows)]).record
                  = frame.candidates[i]
    /\ \A k \in 1..Len(frame.received) :
         LET toilet == normalizeUsToilet(frame.received[k])
         IN  frame.received[k].approved = JsTrue /\ toilet.hasRecord
             => \E i \in 1..Len(frame.candidates) :
                  frame.candidates[i].id = toilet.record.id

\* A US lookup was given two approved rows of one id with finite coordinates
\* that make different records, and holds the record of the first.
C19_Witness ==
  \E r \in Reqs :
    /\ pc[r] = "us"
    /\ \E i \in 1..Len(local[r].candidates) :
         LET rows == RecordOccurrences(local[r].received, local[r].candidates[i])
         IN  \E k \in rows :
               /\ k # First(rows)
               /\ normalizeUsToilet(local[r].received[k]).record
                    # local[r].candidates[i]

\* Invocation r completes a refresh in this step.
WritesCache(r) == pc[r] = "export" /\ pc'[r] = "idle" /\ sent'.status = 200

\* C20, as stated: across any interleaving of concurrent getDataset() calls the
\* cache's fetchedAt never decreases.
C20_FetchedAtNeverDecreases ==
  [][ukCache'.fetchedAt >= ukCache.fetchedAt]_vars

\* C20, amended: fetchedAt changes only in a step in which a call completes its
\* refresh, and then becomes the time at which that call started, whatever the
\* cache held; it is never ahead of the clock, and it decreases only when the
\* call that writes started before the call whose refresh it replaces.
C20_FetchedAtIsStartOfLastWriter ==
  [][/\ ukCache.fetchedAt <= clock
     /\ ukCache'.fetchedAt <= clock'
     /\ \A r \in Reqs :
          WritesCache(r) => /\ ukCache'.fetchedAt = local[r].now
                            /\ lastWrite'.replaced = ukCache.fetchedAt
     /\ ukCache'.fetchedAt # ukCache.fetchedAt => \E r \in Reqs : WritesCache(r)
     /\ ukCache'.fetchedAt < ukCache.fetchedAt
          => \E r \in Reqs : WritesCache(r) /\ local[r].now < lastWrite.now]_vars

\* A refresh has just written a fetchedAt older than the one it replaced, some
\* time after it started.
C20_Witness ==
  /\ sent.status = 200
  /\ IsFullRefreshLog(sent.io)
  /\ ukCache.fetchedAt = sent.frame.now
  /\ ukCache.fetchedAt < lastWrite.replaced
  /\ ukCache.fetchedAt < clock

=============================================================================
